---- MODULE Spec2Model ----
(***************************************************************************)
(* Model of armake2's src/error.rs: the process-wide warning throttle      *)
(* (WARNING_STATE, warning, warning_suppressed, print_warning_summary,     *)
(* init_warnings) and the parse-error formatters (format_error,            *)
(* format_parse_error).                                                    *)
(***************************************************************************)
EXTENDS Integers, Sequences, FiniteSets, TLC

(* ------------------------------------------------------------------ *)
(* Bounds of the model                                                 *)
(* ------------------------------------------------------------------ *)

\* calls of warning(_, Some(c), _) explored per category in Spec
MaxCalls == 12

\* in SpecHigh the counters may start this far below u32::MAX
HighStart == 2

\* calls of warning(_, Some(c), _) explored per category in SpecThreads
ThreadCalls == 11

\* calls of prepend_error explored on one Result
MaxChain == 2

\* characters of the input text given to format_error
MaxInput == 3

\* failure lines 1..MaxLine and columns 1..MaxColumn
MaxLine == 3

MaxColumn == 3

\* entries of the line-origin table
MaxTable == 2

(* ------------------------------------------------------------------ *)
(* Program constants                                                   *)
(* ------------------------------------------------------------------ *)

\* WARNING_STATE's initial max
DefaultMax == 10

\* a u32 is kept as two 16-bit limbs <<high, low>>, of Limb values each
Limb == 65536

\* u32::MAX, the value init_warnings stores under verbose
U32Max == <<Limb - 1, Limb - 1>>

\* the u32 of a number below 2^31
U32Of(n) == <<n \div Limb, n % Limb>>

\* the number of a u32 below 2^31
ToInt(a) == a[1] * Limb + a[2]

\* >= and > on u32
GeU32(a, b) == a[1] > b[1] \/ (a[1] = b[1] /\ a[2] >= b[2])

GtU32(a, b) == a[1] > b[1] \/ (a[1] = b[1] /\ a[2] > b[2])

\* mutant: the increment is lost
IncU32Lost(a) == a

\* u32 += 1 as the release build computes it (wrapping)
IncU32(a) == IF a[2] < Limb - 1 THEN <<a[1], a[2] + 1>> ELSE <<(a[1] + 1) % Limb, 0>>

\* u32 - u32 as the release build computes it (wrapping)
SubU32(a, b) ==
    IF a[2] >= b[2]
    THEN <<(a[1] - b[1] + Limb) % Limb, a[2] - b[2]>>
    ELSE <<(a[1] - b[1] - 1 + 2 * Limb) % Limb, a[2] - b[2] + Limb>>

\* Option::None
None == "None"

\* warning category names (&'static str); "None" is not one of them
Categories == {"c1", "c2"}

\* the location argument of warning: (Option<M>, Option<u32>)
Locations == {<<None, None>>, <<"file", None>>, <<None, "7">>, <<"file", "7">>}

Min(a, b) == IF a <= b THEN a ELSE b

\* characters of an input text: space and no-break space (U+00A0) are White_Space,
\* "a" and ";" are not, "\n" ends a line; U+00A0 takes two bytes in UTF-8
Chars == {" ", "nbsp", "a", ";", "\n"}

\* char::is_whitespace
IsWhitespace(ch) == ch \in {" ", "nbsp", "\n"}

\* char::len_utf8
LenUtf8(ch) == IF ch = "nbsp" THEN 2 ELSE 1

\* a path that is not valid UTF-8 (Path::to_str gives None)
NonUtf8 == "<non-utf8>"

\* Option<PathBuf>
Origins == {None, "a.hpp", NonUtf8}

\* entries (original line, original file) of PreprocessInfo.line_origins
Entries == {<<5, None>>, <<9, "a.hpp">>, <<2, NonUtf8>>}

\* the sequences over S of length lo..hi
SeqsOf(S, lo, hi) == UNION {[1..n -> S] : n \in lo..hi}

VARIABLES
    perr,       \* the argument of the format_error call: self, its location, origin/info, input
    diag,       \* what that call produced: Ok, an Error's text, or a panic
    max,        \* WarningState.max : u32
    muted,      \* WarningState.muted : HashSet<String>
    raised,     \* WarningState.raised : HashMap<String, u32>, a function on its key set
    op,         \* the operation that ran last, with its arguments
    out,        \* the lines that operation wrote to stderr, in order
    calls,      \* history: per category, calls of warning made while it was not muted
    printed,    \* history: per category, messages of that category printed
    steady,     \* history: per category, max has not changed since its first call
    result,     \* the Result<T, Error> a caller holds, or NoResult
    cause,      \* history: that Result as it was made
    chain,      \* history: the messages given to prepend_error since, in call order
    exit_status, \* <<status>> once std::process::exit was called, << >> before
    pc,         \* per thread, where it stands in the function it runs
    lock,       \* the thread that holds WARNING_STATE's mutex, or None
    local       \* per thread, the function it runs, its arguments and its locals

wvars == <<max, muted, raised, op, out, calls, printed, steady>>

fvars == <<perr, diag>>

evars == <<result, cause, chain, exit_status>>

tvars == <<pc, lock, local>>

vars == <<perr, diag, max, muted, raised, op, out, calls, printed, steady,
          result, cause, chain, exit_status, pc, lock, local>>

\* HashMap::get(..).unwrap_or(0), for stating properties
Raised(c) == IF c \in DOMAIN raised THEN raised[c] ELSE U32Of(0)

Op(name, cat, loc, m, v, ret) ==
    [name |-> name, cat |-> cat, loc |-> loc, muted |-> m, verbose |-> v, ret |-> ret]

\* the text passed by a caller of warning
UserMsg == [text |-> "user", excess |-> U32Of(0), cat |-> None, plural |-> FALSE]

\* the two format! strings of print_warning_summary
SummaryMsg(excess, name) ==
    [text |-> "suppressed", excess |-> excess, cat |-> name, plural |-> GtU32(excess, U32Of(1))]

\* print_warning_message: the line written to stderr
print_warning_message(msg, name, location) ==
    LET loc_str ==
            IF location[1] # None /\ location[2] # None THEN "In file f:l: "
            ELSE IF location[1] # None THEN "In file f: "
            ELSE IF location[2] # None THEN "In line l: "
            ELSE ""
        name_str == IF name # None THEN <<"[", name, "]">> ELSE <<>>
    IN  [loc_str |-> loc_str, label |-> "warning", msg |-> msg, name_str |-> name_str]

\* static WARNING_STATE: Lazy<Mutex<WarningState>>
InitWarningState ==
    /\ max = U32Of(DefaultMax)
    /\ muted = {}
    /\ raised = << >>
    /\ op = Op("start", None, <<None, None>>, {}, FALSE, FALSE)
    /\ out = << >>
    /\ calls = [c \in Categories |-> 0]
    /\ printed = [c \in Categories |-> 0]
    /\ steady = [c \in Categories |-> TRUE]

\* no format_error call is in progress
NoCall == [variant |-> "none", self |-> "Ok", line |-> 1, column |-> 1,
           origin |-> None, table |-> << >>, input |-> << >>]

Diag(kind, file, line_number, trimmed, spaces, token, why) ==
    [kind |-> kind, file |-> file, line_number |-> line_number, trimmed |-> trimmed,
     spaces |-> spaces, token |-> token, why |-> why]

Pending == Diag("Pending", << >>, 0, << >>, 0, << >>, "")

\* Ok(t) => Ok(t)
OkDiag == Diag("Ok", << >>, 0, << >>, 0, << >>, "")

Panic(why) == Diag("panic", << >>, 0, << >>, 0, << >>, why)

\* threads that call into the module
Threads == {"t1", "t2"}

\* no Result is held
NoResult == [kind |-> "none", val |-> "", text |-> << >>]

\* no Result is held and the process runs
InitErrorIdle ==
    /\ result = NoResult
    /\ cause = NoResult
    /\ chain = << >>
    /\ exit_status = << >>

\* a thread that is in none of the module's functions
NoLocal == [fn |-> "none", name |-> None, location |-> <<None, None>>, muted |-> {},
            verbose |-> FALSE, print |-> << >>, exit |-> FALSE, ret |-> FALSE,
            asked |-> "no"]

\* every thread is outside the module and the mutex is free
InitThreadsIdle ==
    /\ pc = [t \in Threads |-> "idle"]
    /\ lock = None
    /\ local = [t \in Threads |-> NoLocal]

Init ==
    /\ InitWarningState
    /\ perr = NoCall
    /\ diag = Pending
    /\ InitErrorIdle
    /\ InitThreadsIdle

\* mutant: a warning without a category takes the throttled path too
IsSomeAlways(name) == TRUE

\* if let Some(name_str) = name
IsSome(name) == name # None

\* mutant: the muted set is never consulted
IsMutedNever(name) == FALSE

\* state.muted.contains(name)
IsMuted(name) == name \in muted

\* mutant: > for >=, one message too many
AtCapGt(count, cap) == GtU32(count, cap)

\* mutant: the cap is never applied
AtCapNever(count, cap) == FALSE

\* *raised_count >= max_warnings, the test that stops a category at the cap
AtCap(count, cap) == GeU32(count, cap)

\* pub fn warning
warning(name, location) ==
    /\ UNCHANGED <<fvars, evars, tvars>>
    /\ op' = Op("warning", name, location, {}, FALSE, FALSE)
    /\ UNCHANGED <<max, steady>>
    /\ IF IsSome(name)
       THEN IF IsMuted(name)
            THEN /\ out' = << >>
                 /\ UNCHANGED <<muted, raised, calls, printed>>
            ELSE LET max_warnings == max
                     entry == IF name \in DOMAIN raised
                              THEN raised
                              ELSE [k \in DOMAIN raised \cup {name} |->
                                       IF k = name THEN U32Of(0) ELSE raised[k]]
                     raised_count == entry[name]
                 IN  /\ calls' = [calls EXCEPT ![name] = @ + 1]
                     /\ UNCHANGED muted
                     /\ IF AtCap(raised_count, max_warnings)
                        THEN /\ raised' = entry
                             /\ out' = << >>
                             /\ UNCHANGED printed
                        ELSE /\ raised' = [entry EXCEPT ![name] = IncU32(@)]
                             /\ out' = <<print_warning_message(UserMsg, name, location)>>
                             /\ printed' = [printed EXCEPT ![name] = @ + 1]
       ELSE /\ out' = <<print_warning_message(UserMsg, name, location)>>
            /\ UNCHANGED <<muted, raised, calls, printed>>

\* mutant: > for >= in the comparison with max
warning_suppressed_gt(name) ==
    IF name = None THEN FALSE
    ELSE IF IsMuted(name) THEN TRUE
    ELSE IF name \in DOMAIN raised THEN GtU32(raised[name], max)
    ELSE FALSE

\* pub fn warning_suppressed: the value returned
warning_suppressed_value(name) ==
    IF name = None THEN FALSE
    ELSE IF IsMuted(name) THEN TRUE
    ELSE IF name \in DOMAIN raised THEN GeU32(raised[name], max)
    ELSE FALSE

\* pub fn warning_suppressed
warning_suppressed(name) ==
    /\ UNCHANGED <<fvars, evars, tvars>>
    /\ op' = Op("warning_suppressed", name, <<None, None>>, {}, FALSE,
                warning_suppressed_value(name))
    /\ out' = << >>
    /\ UNCHANGED <<max, muted, raised, calls, printed, steady>>

\* the categories print_warning_summary reports
SummaryNames == {n \in DOMAIN raised : ~IsMuted(n) /\ GtU32(raised[n], max)}

\* the orders in which HashMap::iter may visit a set of keys
Orders(S) == {s \in [1..Cardinality(S) -> S] : \A i, j \in 1..Cardinality(S) : s[i] = s[j] => i = j}

\* the lines print_warning_summary may write: summary_warnings in an iteration order
SummaryOutputs ==
    {[i \in 1..Len(order) |->
         print_warning_message(SummaryMsg(SubU32(raised[order[i]], max), order[i]),
                               None, <<None, None>>)] : order \in Orders(SummaryNames)}

\* pub fn print_warning_summary
print_warning_summary ==
    /\ UNCHANGED <<fvars, evars, tvars>>
    /\ op' = Op("print_warning_summary", None, <<None, None>>, {}, FALSE, FALSE)
    /\ out' \in SummaryOutputs
    /\ UNCHANGED <<max, muted, raised, calls, printed, steady>>

\* mutant: verbose = false puts the default back
InitMaxReset(verbose) == IF verbose THEN U32Max ELSE U32Of(DefaultMax)

\* the value init_warnings leaves in max
InitMax(verbose) == IF verbose THEN U32Max ELSE max

\* pub fn init_warnings
init_warnings(m, verbose) ==
    /\ UNCHANGED <<fvars, evars, tvars>>
    /\ op' = Op("init_warnings", None, <<None, None>>, m, verbose, FALSE)
    /\ muted' = m
    /\ max' = InitMax(verbose)
    /\ out' = << >>
    /\ steady' = [c \in Categories |-> steady[c] /\ (calls[c] = 0 \/ max' = max)]
    /\ UNCHANGED <<raised, calls, printed>>

\* a call of warning, explored while the category has made fewer than limit calls
WarningCall(limit) ==
    \E name \in Categories \cup {None}, location \in Locations :
        /\ name # None => calls[name] < limit
        /\ warning(name, location)

WarningSuppressedCall == \E name \in Categories \cup {None} : warning_suppressed(name)

InitWarningsCall == \E m \in SUBSET Categories, verbose \in BOOLEAN : init_warnings(m, verbose)

Next ==
    \/ WarningCall(MaxCalls)
    \/ WarningSuppressedCall
    \/ print_warning_summary
    \/ InitWarningsCall

Spec == Init /\ [][Next]_vars

\* the state after init_warnings({}, true) and u32::MAX - HighStart printed warnings
\* of every category; the history variables count from this state on
InitHigh ==
    /\ max = U32Max
    /\ muted = {}
    /\ raised = [c \in Categories |-> SubU32(U32Max, U32Of(HighStart))]
    /\ op = Op("start", None, <<None, None>>, {}, FALSE, FALSE)
    /\ out = << >>
    /\ calls = [c \in Categories |-> 0]
    /\ printed = [c \in Categories |-> 0]
    /\ steady = [c \in Categories |-> TRUE]
    /\ perr = NoCall
    /\ diag = Pending
    /\ InitErrorIdle
    /\ InitThreadsIdle

\* the behaviours from the constructed state and from the state near u32::MAX
SpecHigh == (Init \/ InitHigh) /\ [][Next]_vars

(* ------------------------------------------------------------------ *)
(* ErrorExt: prepend_error and print_error                             *)
(* ------------------------------------------------------------------ *)

\* the status given to std::process::exit
ExitCode == 1

\* the messages given to prepend_error, as character sequences
Msgs == {<<"o">>, << >>}

\* the texts of the errors a callee returns
Causes == {<<"e">>, <<"i", "\n">>}

\* Ok(t)
OkOf(t) == [kind |-> "Ok", val |-> t, text |-> << >>]

\* the error! macro: std::io::Error::new(ErrorKind::Other, format!(..))
ErrorOf(text) == [kind |-> "Err", val |-> "", text |-> text]

\* the Results a callee hands over
Results == {OkOf("t")} \cup {ErrorOf(c) : c \in Causes}

ErrOp(name, self, msg, exit) ==
    [name |-> name, cat |-> None, loc |-> <<None, None>>, muted |-> {}, verbose |-> FALSE,
     ret |-> FALSE, self |-> self, msg |-> msg, exit |-> exit]

\* mutant: the original text first, the context after it
prepend_error_swapped(self, msg) ==
    IF self.kind = "Ok" THEN self ELSE ErrorOf(self.text \o <<"\n">> \o msg)

\* ErrorExt::prepend_error: the value returned
prepend_error_value(self, msg) ==
    IF self.kind = "Ok" THEN self ELSE ErrorOf(msg \o <<"\n">> \o self.text)

\* eprintln!("{}: {}", "error".red().bold(), error)
ErrorLine(text) ==
    [loc_str |-> "", label |-> "error",
     msg |-> [text |-> "error", excess |-> U32Of(0), cat |-> None, plural |-> FALSE],
     name_str |-> << >>, body |-> text]

\* mutant: the process is never ended
print_error_exits_never(self, exit) == FALSE

\* mutant: every failure ends the process, whatever exit says
print_error_exits_always(self, exit) == self.kind = "Err"

\* print_error: if let Err(error) = self { .. if exit { .. } }
print_error_exits(self, exit) == self.kind = "Err" /\ exit

\* print_error: what it may write, in order
print_error_outputs(self, exit) ==
    IF self.kind # "Err" THEN {<< >>}
    ELSE IF exit THEN {<<ErrorLine(self.text)>> \o s : s \in SummaryOutputs}
    ELSE {<<ErrorLine(self.text)>>}

\* a callee returns a Result
MakeResult(r) ==
    /\ result = NoResult
    /\ result' = r
    /\ cause' = r
    /\ chain' = << >>
    /\ op' = ErrOp("make", r, << >>, FALSE)
    /\ out' = << >>
    /\ UNCHANGED <<max, muted, raised, calls, printed, steady, exit_status, fvars, tvars>>

\* ErrorExt::prepend_error
prepend_error(msg) ==
    /\ result # NoResult
    /\ Len(chain) < MaxChain
    /\ result' = prepend_error_value(result, msg)
    /\ chain' = Append(chain, msg)
    /\ op' = ErrOp("prepend_error", result, msg, FALSE)
    /\ out' = << >>
    /\ UNCHANGED <<max, muted, raised, calls, printed, steady, cause, exit_status, fvars, tvars>>

\* ErrorExt::print_error; it consumes the Result
print_error(exit) ==
    /\ result # NoResult
    /\ op' = ErrOp("print_error", result, << >>, exit)
    /\ out' \in print_error_outputs(result, exit)
    /\ exit_status' = IF print_error_exits(result, exit) THEN <<ExitCode>> ELSE exit_status
    /\ result' = NoResult
    /\ cause' = NoResult
    /\ chain' = << >>
    /\ UNCHANGED <<max, muted, raised, calls, printed, steady, fvars, tvars>>

MakeResultCall == \E r \in Results : MakeResult(r)

PrependErrorCall == \E msg \in Msgs : prepend_error(msg)

PrintErrorCall == \E exit \in BOOLEAN : print_error(exit)

\* the categories warned about between the calls of ErrorExt
ErrCategories == {"c1"}

ErrWarningCall ==
    \E name \in ErrCategories \cup {None} :
        /\ name # None => calls[name] < MaxCalls
        /\ warning(name, <<None, None>>)

\* std::process::exit has not been called: the process runs
Running == exit_status = << >>

NextError ==
    \/ Running /\ MakeResultCall
    \/ Running /\ PrependErrorCall
    \/ Running /\ PrintErrorCall
    \/ Running /\ ErrWarningCall
    \/ Running /\ WarningSuppressedCall
    \/ Running /\ print_warning_summary
    \/ Running /\ InitWarningsCall

SpecError == Init /\ [][NextError]_vars

(* ------------------------------------------------------------------ *)
(* The warning operations, step by step, on several threads            *)
(* ------------------------------------------------------------------ *)

\* the categories the threads warn about
ThreadCategories == {"c1"}

\* asked is history: what the thread's call of warning_suppressed for the same name,
\* right before this call of warning, returned ("true", "false"), else "no"
Local(fn, name, m, verbose, print, exit, ret) ==
    [fn |-> fn, name |-> name, location |-> <<None, None>>, muted |-> m,
     verbose |-> verbose, print |-> print, exit |-> exit, ret |-> ret, asked |-> "no"]

\* the answer a thread has just got for name, as kept in asked
Asked(t, name) ==
    IF local[t].fn = "warning_suppressed" /\ local[t].name = name
    THEN IF local[t].ret THEN "true" ELSE "false"
    ELSE "no"

\* the step of thread t that ran last
TOp(t, step) ==
    [name |-> local[t].fn, cat |-> local[t].name, loc |-> <<None, None>>,
     muted |-> local[t].muted, verbose |-> local[t].verbose, ret |-> FALSE,
     thread |-> t, step |-> step]

\* a thread calls warning: it goes on to lock WARNING_STATE (line 139)
TWarning(t) ==
    /\ pc[t] = "idle"
    /\ \E name \in ThreadCategories \cup {None} :
          /\ name # None => calls[name] < ThreadCalls
          /\ local' = [local EXCEPT ![t] =
                          [Local("warning", name, {}, FALSE, << >>, FALSE, FALSE)
                              EXCEPT !.asked = Asked(t, name)]]
    /\ pc' = [pc EXCEPT ![t] = "lock"]
    /\ op' = [TOp(t, "call") EXCEPT !.name = "warning", !.cat = local'[t].name]
    /\ out' = << >>
    /\ UNCHANGED <<max, muted, raised, calls, printed, steady, lock, fvars, evars>>

\* a thread calls warning_suppressed: None returns at once (lines 160-163)
TWarningSuppressed(t) ==
    /\ pc[t] = "idle"
    /\ \E name \in ThreadCategories \cup {None} :
          /\ local' = [local EXCEPT ![t] =
                          Local("warning_suppressed", name, {}, FALSE, << >>, FALSE, FALSE)]
          /\ pc' = [pc EXCEPT ![t] = IF name = None THEN "idle" ELSE "lock"]
    /\ op' = [TOp(t, "call") EXCEPT !.name = "warning_suppressed", !.cat = local'[t].name]
    /\ out' = << >>
    /\ UNCHANGED <<max, muted, raised, calls, printed, steady, lock, fvars, evars>>

\* a thread calls print_warning_summary
TPrintWarningSummary(t) ==
    /\ pc[t] = "idle"
    /\ local' = [local EXCEPT ![t] =
                    Local("print_warning_summary", None, {}, FALSE, << >>, FALSE, FALSE)]
    /\ pc' = [pc EXCEPT ![t] = "lock"]
    /\ op' = [TOp(t, "call") EXCEPT !.name = "print_warning_summary", !.cat = None]
    /\ out' = << >>
    /\ UNCHANGED <<max, muted, raised, calls, printed, steady, lock, fvars, evars>>

\* a thread calls init_warnings
TInitWarnings(t) ==
    /\ pc[t] = "idle"
    /\ \E m \in SUBSET ThreadCategories, verbose \in BOOLEAN :
          local' = [local EXCEPT ![t] =
                       Local("init_warnings", None, m, verbose, << >>, FALSE, FALSE)]
    /\ pc' = [pc EXCEPT ![t] = "lock"]
    /\ op' = [TOp(t, "call") EXCEPT !.name = "init_warnings", !.cat = None,
                                     !.muted = local'[t].muted, !.verbose = local'[t].verbose]
    /\ out' = << >>
    /\ UNCHANGED <<max, muted, raised, calls, printed, steady, lock, fvars, evars>>

\* a thread calls print_error on a failure: the error line is written (line 52) and,
\* with exit, print_warning_summary is entered (line 55)
TPrintError(t) ==
    /\ pc[t] = "idle"
    /\ \E exit \in BOOLEAN :
          /\ local' = [local EXCEPT ![t] =
                          Local("print_error", None, {}, FALSE, << >>, exit, FALSE)]
          /\ pc' = [pc EXCEPT ![t] = IF exit THEN "lock" ELSE "idle"]
    /\ op' = [TOp(t, "call") EXCEPT !.name = "print_error", !.cat = None]
    /\ out' = <<ErrorLine(<<"e">>)>>
    /\ UNCHANGED <<max, muted, raised, calls, printed, steady, lock, fvars, evars>>

\* WARNING_STATE.lock().unwrap(): the thread waits until the mutex is free
TAcquire(t) ==
    /\ pc[t] = "lock"
    /\ lock = None
    /\ lock' = t
    /\ pc' = [pc EXCEPT ![t] = "crit"]
    /\ op' = TOp(t, "lock")
    /\ out' = << >>
    /\ UNCHANGED <<max, muted, raised, calls, printed, steady, local, fvars, evars>>

\* mutant: the guard is kept while the lines are printed
ReleasedLockKept(t, printing) == IF printing THEN t ELSE None

\* drop(state) before print_warning_message (lines 155, 196), or the guard's scope ends
ReleasedLock(t, printing) == None

\* where a thread goes when it has nothing left to print
AfterPrint(l) == IF l.fn = "print_error" THEN "exit" ELSE "idle"

\* warning, lines 141-155, under the lock; the guard is dropped at its end
TWarningLocked(t) ==
    /\ local[t].fn = "warning"
    /\ LET name == local[t].name
           line == <<print_warning_message(UserMsg, name, local[t].location)>>
           entry == IF name \in DOMAIN raised
                    THEN raised
                    ELSE [k \in DOMAIN raised \cup {name} |->
                             IF k = name THEN U32Of(0) ELSE raised[k]]
       IN  IF IsSome(name)
           THEN IF IsMuted(name)
                THEN /\ local' = local
                     /\ pc' = [pc EXCEPT ![t] = "idle"]
                     /\ UNCHANGED <<raised, calls>>
                ELSE /\ calls' = [calls EXCEPT ![name] = @ + 1]
                     /\ IF AtCap(entry[name], max)
                        THEN /\ raised' = entry
                             /\ local' = local
                             /\ pc' = [pc EXCEPT ![t] = "idle"]
                        ELSE /\ raised' = [entry EXCEPT ![name] = IncU32(@)]
                             /\ local' = [local EXCEPT ![t].print = line]
                             /\ pc' = [pc EXCEPT ![t] = "print"]
           ELSE /\ local' = [local EXCEPT ![t].print = line]
                /\ pc' = [pc EXCEPT ![t] = "print"]
                /\ UNCHANGED <<raised, calls>>
    /\ UNCHANGED <<max, muted, steady>>

\* warning_suppressed, lines 165-175, under the lock
TWarningSuppressedLocked(t) ==
    /\ local[t].fn = "warning_suppressed"
    /\ local' = [local EXCEPT ![t].ret = warning_suppressed_value(local[t].name)]
    /\ pc' = [pc EXCEPT ![t] = "idle"]
    /\ UNCHANGED <<max, muted, raised, calls, steady>>

\* print_warning_summary, lines 179-196, under the lock; also within print_error
TSummaryLocked(t) ==
    /\ local[t].fn \in {"print_warning_summary", "print_error"}
    /\ \E lines \in SummaryOutputs :
          /\ local' = [local EXCEPT ![t].print = lines]
          /\ pc' = [pc EXCEPT ![t] = IF lines # << >> THEN "print" ELSE AfterPrint(local[t])]
    /\ UNCHANGED <<max, muted, raised, calls, steady>>

\* init_warnings, lines 204-209, under the lock
TInitWarningsLocked(t) ==
    /\ local[t].fn = "init_warnings"
    /\ muted' = local[t].muted
    /\ max' = InitMax(local[t].verbose)
    /\ steady' = [c \in Categories |-> steady[c] /\ (calls[c] = 0 \/ max' = max)]
    /\ local' = local
    /\ pc' = [pc EXCEPT ![t] = "idle"]
    /\ UNCHANGED <<raised, calls>>

\* the part of a function that runs with the mutex held, up to the drop of the guard
TCritical(t) ==
    /\ pc[t] = "crit"
    /\ lock = t
    /\ \/ TWarningLocked(t)
       \/ TWarningSuppressedLocked(t)
       \/ TSummaryLocked(t)
       \/ TInitWarningsLocked(t)
    /\ lock' = ReleasedLock(t, pc'[t] = "print")
    /\ op' = [TOp(t, "crit") EXCEPT !.ret = local'[t].ret]
    /\ out' = << >>
    /\ UNCHANGED <<printed, fvars, evars>>

\* print_warning_message, called without the lock (lines 156 and 199): one line
TPrint(t) ==
    /\ pc[t] = "print"
    /\ local[t].print # << >>
    /\ out' = <<Head(local[t].print)>>
    /\ local' = [local EXCEPT ![t].print = Tail(@)]
    /\ pc' = [pc EXCEPT ![t] = IF Tail(local[t].print) # << >> THEN "print"
                                ELSE AfterPrint(local[t])]
    /\ printed' = IF local[t].fn = "warning" /\ local[t].name # None
                  THEN [printed EXCEPT ![local[t].name] = @ + 1]
                  ELSE printed
    /\ op' = TOp(t, "print")
    /\ UNCHANGED <<max, muted, raised, calls, steady, lock, fvars, evars>>

\* std::process::exit(1) (line 56): every thread ends
TExit(t) ==
    /\ pc[t] = "exit"
    /\ exit_status' = <<ExitCode>>
    /\ op' = TOp(t, "exit")
    /\ out' = << >>
    /\ UNCHANGED <<max, muted, raised, calls, printed, steady, result, cause, chain,
                   tvars, fvars>>

NextThreads ==
    \/ \E t \in Threads : Running /\ TWarning(t)
    \/ \E t \in Threads : Running /\ TWarningSuppressed(t)
    \/ \E t \in Threads : Running /\ TPrintWarningSummary(t)
    \/ \E t \in Threads : Running /\ TInitWarnings(t)
    \/ \E t \in Threads : Running /\ TPrintError(t)
    \/ \E t \in Threads : Running /\ TAcquire(t)
    \/ \E t \in Threads : Running /\ TCritical(t)
    \/ \E t \in Threads : Running /\ TPrint(t)
    \/ \E t \in Threads : Running /\ TExit(t)

SpecThreads == Init /\ [][NextThreads]_vars

(* ------------------------------------------------------------------ *)
(* The parse-error formatters                                          *)
(* ------------------------------------------------------------------ *)

RECURSIVE SplitLines(_)
\* str::lines: the pieces between "\n", without a last empty piece
SplitLines(s) ==
    IF s = << >> THEN << >>
    ELSE LET nl == {i \in 1..Len(s) : s[i] = "\n"}
         IN  IF nl = {} THEN <<s>>
             ELSE LET i == CHOOSE k \in nl : \A j \in nl : k <= j
                  IN  <<SubSeq(s, 1, i - 1)>> \o SplitLines(SubSeq(s, i + 1, Len(s)))

\* Iterator::nth(n).unwrap_or(dflt), n counted from 0
NthOr(seq, n, dflt) == IF n + 1 <= Len(seq) THEN seq[n + 1] ELSE dflt

RECURSIVE trim_start(_)
\* str::trim_start
trim_start(line) ==
    IF line # << >> /\ IsWhitespace(line[1]) THEN trim_start(Tail(line)) ELSE line

RECURSIVE StrLen(_)
\* str::len: the length in bytes
StrLen(line) == IF line = << >> THEN 0 ELSE LenUtf8(line[1]) + StrLen(Tail(line))

\* usize a - b: the difference, or the panics of the two builds when it is negative
\* (overflow checks on: the subtraction panics; off: it wraps and `later` panics)
SubUsize(a, b, later) ==
    IF a >= b THEN {[ok |-> TRUE, val |-> a - b, why |-> ""]}
    ELSE {[ok |-> FALSE, val |-> 0, why |-> "attempt to subtract with overflow"],
          [ok |-> FALSE, val |-> 0, why |-> later]}

\* mutant: the column is used as a 0-based index
offending_token_off(line, column_number) ==
    IF column_number + 1 <= Len(line) THEN <<line[column_number + 1]>> ELSE <<"\\", "n">>

\* line.chars().map(..).nth(column_number - 1).unwrap_or_else(|| "\\n".to_string())
offending_token(line, column_number) ==
    IF column_number - 1 + 1 <= Len(line)
    THEN <<line[column_number - 1 + 1]>>
    ELSE <<"\\", "n">>

\* fn format_parse_error: the outcomes
format_parse_error(line, file, line_number, column_number) ==
    LET trimmed == trim_start(line)
        token == offending_token(line, column_number)
    IN  {IF off.ok
         THEN Diag("Err", file, line_number, trimmed, off.val, token, "")
         ELSE Panic(off.why) :
            off \in SubUsize(column_number - 1, StrLen(line) - StrLen(trimmed),
                             "capacity overflow")}

\* Some(ref path) => format!("{}:", path.to_str().unwrap()), None => ""
file_origin(path) ==
    IF path = None THEN {[ok |-> TRUE, val |-> << >>, why |-> ""]}
    ELSE IF path = NonUtf8
    THEN {[ok |-> FALSE, val |-> << >>, why |-> "called Option::unwrap() on a None value"]}
    ELSE {[ok |-> TRUE, val |-> <<path, ":">>, why |-> ""]}

\* PreprocessParseErrorExt::format_error: the outcomes
format_error_raw(self, pe, origin, input) ==
    IF self = "Ok" THEN {OkDiag}
    ELSE LET line_origin == pe.line - 1
             line == NthOr(SplitLines(input), pe.line - 1, << >>)
         IN  UNION {IF f.ok
                    THEN format_parse_error(line, f.val, line_origin, pe.column)
                    ELSE {Panic(f.why)} : f \in file_origin(origin)}

\* mutant: the line is taken as 0-based, the index is one too far
origin_index_off(l, table) ==
    SubUsize(Min(l + 1, Len(table)), 1, "index out of bounds")

\* the index min(pe.location.line, info.line_origins.len()) - 1
origin_index(l, table) ==
    SubUsize(Min(l, Len(table)), 1, "index out of bounds")

\* ConfigParseErrorExt::format_error: the outcomes
format_error_config(self, pe, table, input) ==
    IF self = "Ok" THEN {OkDiag}
    ELSE LET line == NthOr(SplitLines(input), pe.line - 1, << >>)
         IN  UNION {IF ~idx.ok THEN {Panic(idx.why)}
                    ELSE UNION {IF f.ok
                                THEN format_parse_error(line, f.val, table[idx.val + 1][1],
                                                        pe.column)
                                ELSE {Panic(f.why)} :
                                   f \in file_origin(table[idx.val + 1][2])} :
                       idx \in origin_index(pe.line, table)}

\* the calls of format_error that are explored
InitFormat ==
    /\ InitWarningState
    /\ InitErrorIdle
    /\ InitThreadsIdle
    /\ diag = Pending
    /\ \E variant \in {"raw", "config"}, self \in {"Ok", "Err"},
          line \in 1..MaxLine, column \in 1..MaxColumn,
          input \in SeqsOf(Chars, 0, MaxInput) :
          \/ /\ variant = "raw"
             /\ \E origin \in Origins :
                   perr = [variant |-> variant, self |-> self, line |-> line,
                           column |-> column, origin |-> origin, table |-> << >>,
                           input |-> input]
          \/ /\ variant = "config"
             /\ \E table \in SeqsOf(Entries, 0, MaxTable) :
                   perr = [variant |-> variant, self |-> self, line |-> line,
                           column |-> column, origin |-> None, table |-> table,
                           input |-> input]

FormatErrorRaw ==
    /\ perr.variant = "raw"
    /\ diag = Pending
    /\ diag' \in format_error_raw(perr.self, perr, perr.origin, perr.input)
    /\ UNCHANGED <<perr, wvars, evars, tvars>>

FormatErrorConfig ==
    /\ perr.variant = "config"
    /\ diag = Pending
    /\ diag' \in format_error_config(perr.self, perr, perr.table, perr.input)
    /\ UNCHANGED <<perr, wvars, evars, tvars>>

NextFormat ==
    \/ FormatErrorRaw
    \/ FormatErrorConfig

SpecFormat == InitFormat /\ [][NextFormat]_vars

(* ------------------------------------------------------------------ *)
(* The claims                                                          *)
(* ------------------------------------------------------------------ *)

\* the categories that are raised but not muted
Unmuted == Categories \ muted

\* min(n, m) for a number n and a u32 m
MinOfCalls(n, m) == IF GeU32(U32Of(n), m) THEN ToInt(m) ELSE n

\* the lines of out that are summary lines for category c
SummaryLinesFor(c) ==
    {i \in 1..Len(out) : out[i].msg.text = "suppressed" /\ out[i].msg.cat = c}

\* C1: for a category whose calls all ran under one cap max = M, starting from
\* no call at all, N calls made while it was not muted printed exactly min(N, M)
\* messages of that category.
C1_PrintedIsMinOfCallsAndCap ==
    \A c \in Categories : steady[c] => printed[c] = MinOfCalls(calls[c], max)

\* C1 witness: a category was called more often than the default cap allows and
\* exactly the cap's number of messages was printed.
C1_Witness ==
    \E c \in Categories :
        /\ steady[c]
        /\ max = U32Of(DefaultMax)
        /\ calls[c] > DefaultMax
        /\ printed[c] = DefaultMax

\* C2: after N calls for a non-muted category c under cap M, print_warning_summary
\* prints exactly one line for c, reporting N - M (singular when it is 1, plural
\* above), when N > M, and no line for c when N <= M.
C2_SummaryReportsExcess ==
    op.name = "print_warning_summary" =>
        \A c \in Unmuted :
            steady[c] =>
                IF GtU32(U32Of(calls[c]), max)
                THEN /\ Cardinality(SummaryLinesFor(c)) = 1
                     /\ \A i \in SummaryLinesFor(c) :
                           /\ out[i].msg.excess = SubU32(U32Of(calls[c]), max)
                           /\ out[i].msg.plural = (calls[c] - ToInt(max) > 1)
                ELSE SummaryLinesFor(c) = {}

\* C3: every call of warning for a category that is not muted adds one to its
\* counter, also at the cap: raised[c] is the number of such calls.
C3_RaisedCountsEveryCall ==
    \A c \in Categories : Raised(c) = U32Of(calls[c])

\* C4: a call of warning for a muted category prints nothing and leaves max, muted
\* and raised as they were, and no summary line names a muted category.
C4_MutedIsSilent ==
    [][/\ (op'.name = "warning" /\ op'.cat \in muted) =>
              (out' = << >> /\ UNCHANGED <<max, muted, raised>>)
       /\ op'.name = "print_warning_summary" =>
              \A i \in 1..Len(out') : out'[i].msg.cat \notin muted]_vars

\* C4 witness: a category that had reached the cap was muted and then warned about,
\* and nothing was printed.
C4_Witness ==
    /\ op.name = "warning"
    /\ op.cat \in muted
    /\ Raised(op.cat) = max
    /\ out = << >>

\* C5: init_warnings with verbose = true sets the cap to u32::MAX; under that cap
\* every call for a non-muted category whose counter is below u32::MAX prints, and
\* no counter ever wraps around.
C5_VerboseIsUnbounded ==
    [][/\ (op'.name = "init_warnings" /\ op'.verbose) => max' = U32Max
       /\ \A c \in Unmuted :
              (op'.name = "warning" /\ op'.cat = c /\ max = U32Max /\ Raised(c) # U32Max) =>
                  /\ Len(out') = 1
                  /\ out'[1].name_str = <<"[", c, "]">>
       /\ \A c \in DOMAIN raised : GeU32(raised'[c], raised[c])]_vars

\* C5 witness: under the verbose cap a call printed and took its counter to u32::MAX.
C5_Witness ==
    /\ op.name = "warning"
    /\ op.cat \in Categories
    /\ max = U32Max
    /\ Len(out) = 1
    /\ Raised(op.cat) = U32Max

\* C6 as claimed: after a call of init_warnings, muted is its muted argument and
\* max is u32::MAX if its verbose was true and the default 10 if it was false.
C6_LastCallDecidesBoth ==
    op.name = "init_warnings" =>
        /\ muted = op.muted
        /\ max = IF op.verbose THEN U32Max ELSE U32Of(DefaultMax)

\* C6 as amended: a call of init_warnings replaces muted by its argument; with
\* verbose = true it sets max to u32::MAX, with verbose = false it leaves max as
\* it was (so max is u32::MAX from the first verbose call on, and 10 before).
C6_MutedReplacedMaxSticky ==
    [][op'.name = "init_warnings" =>
          /\ muted' = op'.muted
          /\ max' = IF op'.verbose THEN U32Max ELSE max
          /\ UNCHANGED raised]_vars

\* C6 witness: a call with verbose = false, after an earlier verbose one, replaced a
\* non-empty muted set and left max at u32::MAX.
C6_Witness ==
    /\ op.name = "init_warnings"
    /\ ~op.verbose
    /\ max = U32Max
    /\ muted = op.muted
    /\ muted # Categories

\* C7: warning_suppressed(None) is false; warning_suppressed(Some(c)) is true exactly
\* when c is muted or raised[c] >= max, a missing counter counting as 0; the call
\* leaves max, muted and raised as they were.
C7_SuppressedQuery ==
    [][op'.name = "warning_suppressed" =>
          /\ UNCHANGED <<max, muted, raised>>
          /\ op'.ret = (/\ op'.cat # None
                        /\ (op'.cat \in muted \/ GeU32(Raised(op'.cat), max)))]_vars

\* C7 witness: the query answered true for a category that is not muted and whose
\* counter stands exactly at the cap.
C7_Witness ==
    /\ op.name = "warning_suppressed"
    /\ op.cat \in Unmuted
    /\ Raised(op.cat) = max
    /\ op.ret

\* C8: a call of warning without a category prints exactly one message, which
\* carries no category tag, and leaves max, muted and raised as they were.
C8_UncategorisedAlwaysPrints ==
    [][(op'.name = "warning" /\ op'.cat = None) =>
          /\ Len(out') = 1
          /\ out'[1].name_str = << >>
          /\ out'[1].msg = UserMsg
          /\ UNCHANGED <<max, muted, raised>>]_vars

\* C8 witness: a warning without a category was printed while one category was
\* muted and another stood at the cap.
C8_Witness ==
    /\ op.name = "warning"
    /\ op.cat = None
    /\ Len(out) = 1
    /\ muted # {}
    /\ \E c \in Unmuted : Raised(c) = max

\* the text format_error renders for a table entry's file
FileLabel(path) == IF path = None THEN << >> ELSE <<path, ":">>

\* C9: for a non-empty table T of length K and a failure line L >= 1, the
\* preprocessed-input format_error displays the line and file of T[L-1] (0-based)
\* when L <= K, and those of the last entry when L > K.
C9_OriginClamped ==
    (perr.variant = "config" /\ diag.kind = "Err" /\ Len(perr.table) >= 1) =>
        LET K == Len(perr.table)
            e == IF perr.line <= K THEN perr.table[perr.line] ELSE perr.table[K]
        IN  /\ diag.line_number = e[1]
            /\ diag.file = FileLabel(e[2])

\* C9 witness: a failure beyond the end of a table of two different entries was
\* displayed with the last entry's line.
C9_Witness ==
    /\ perr.variant = "config"
    /\ diag.kind = "Err"
    /\ Len(perr.table) = 2
    /\ perr.table[1] # perr.table[2]
    /\ perr.line > 2
    /\ diag.line_number = perr.table[2][1]

\* every path of the call is valid UTF-8
PathsAreUtf8 ==
    /\ perr.origin # NonUtf8
    /\ \A i \in 1..Len(perr.table) : perr.table[i][2] # NonUtf8

\* C10: for a failure with line >= 1 and column >= 1, any input text and (in the
\* preprocessed variant) any non-empty table, both format_error variants return a
\* formatted diagnostic: no subtraction goes below zero, no index is out of range.
C10_NeverPanics ==
    (/\ perr.variant \in {"raw", "config"}
     /\ perr.self = "Err"
     /\ diag # Pending
     /\ PathsAreUtf8
     /\ perr.variant = "config" => Len(perr.table) >= 1) =>
        diag.kind = "Err"

RECURSIVE Context(_)
\* the text mk \n ... m2 \n m1 \n of the messages <<m1, .., mk>>
Context(ms) ==
    IF ms = << >> THEN << >>
    ELSE ms[Len(ms)] \o <<"\n">> \o Context(SubSeq(ms, 1, Len(ms) - 1))

\* C11: prepend_error passes a success through unchanged; after prepend_error(m1),
\* .., prepend_error(mk) on a failure with text e the failure's text is
\* mk \n .. \n m1 \n e: the most recent context first, the cause last, nothing dropped.
C11_ContextAccumulates ==
    result # NoResult =>
        IF cause.kind = "Ok"
        THEN result = cause
        ELSE /\ result.kind = "Err"
             /\ result.text = Context(chain) \o cause.text

\* C11 witness: two different messages were prepended to a failure.
C11_Witness ==
    /\ result.kind = "Err"
    /\ Len(chain) = 2
    /\ chain[1] # chain[2]
    /\ result.text = chain[2] \o <<"\n">> \o chain[1] \o <<"\n">> \o cause.text

\* C12: print_error(true) on a failure writes the error line first, then the lines
\* of print_warning_summary, then ends the process with status 1; nothing runs, and
\* so nothing is printed, once the process has ended.
C12_ErrorThenSummaryThenExit ==
    [][/\ exit_status = << >>
       /\ (op'.name = "print_error" /\ op'.exit /\ op'.self.kind = "Err") =>
              /\ Len(out') >= 1
              /\ out'[1] = ErrorLine(op'.self.text)
              /\ SubSeq(out', 2, Len(out')) \in SummaryOutputs
              /\ \A i \in 2..Len(out') : out'[i].msg.text = "suppressed"
              /\ exit_status' = <<1>>]_vars

\* C12 witness: a failure with context, after a category went past the cap, was
\* printed with exit = true and the process ended with status 1.
C12_Witness ==
    /\ op.name = "print_error"
    /\ op.exit
    /\ op.self.kind = "Err"
    /\ out[1].label = "error"
    /\ \E c \in Categories : calls[c] > DefaultMax
    /\ exit_status = <<1>>

\* C13: the process ends only in print_error(true) on a failure; print_error on a
\* success prints nothing and does not end it, print_error(false) on a failure
\* prints the error once and does not end it, and no other operation ends it.
C13_OnlyPrintErrorExits ==
    [][/\ exit_status' # exit_status =>
              (op'.name = "print_error" /\ op'.exit /\ op'.self.kind = "Err")
       /\ (op'.name = "print_error" /\ op'.self.kind = "Ok") =>
              (out' = << >> /\ exit_status' = << >>)
       /\ (op'.name = "print_error" /\ op'.self.kind = "Err" /\ ~op'.exit) =>
              (out' = <<ErrorLine(op'.self.text)>> /\ exit_status' = << >>)]_vars

\* C13 witness: print_error(false) printed a failure and the process went on.
C13_Witness ==
    /\ op.name = "print_error"
    /\ ~op.exit
    /\ op.self.kind = "Err"
    /\ Len(out) = 1
    /\ exit_status = << >>

\* the threads that have counted a warning of category c and not yet written it
PendingPrint(c) ==
    {t \in Threads : pc[t] = "print" /\ local[t].fn = "warning" /\ local[t].name = c}

\* C14: in every interleaving, a thread that writes output does not hold the mutex,
\* max, muted and raised are read and changed only by the thread that holds it, and
\* the holder is always in a step that waits for nothing, so no thread can be stuck
\* on the mutex for ever behind a holder that cannot go on.
C14_LockDiscipline ==
    [][/\ out' # << >> => (lock # op'.thread /\ lock' # op'.thread)
       /\ \A t \in Threads : pc[t] = "print" => lock # t
       /\ (<<max, muted, raised>>' # <<max, muted, raised>> \/ op'.step = "crit") =>
              lock = op'.thread
       /\ \A t \in Threads :
              (local'[t].ret # local[t].ret \/ local'[t].print # local[t].print) =>
                  (op'.thread = t /\ (lock = t \/ op'.step \in {"call", "print"}))
       /\ lock # None => pc[lock] = "crit"
       /\ lock' # None => pc'[lock'] = "crit"]_vars

\* C14 witness: one thread writes a warning it has counted while another thread
\* holds the mutex.
C14_Witness ==
    /\ out # << >>
    /\ \E t, u \in Threads :
          /\ t # u
          /\ op.step = "print"
          /\ op.thread = t
          /\ lock = u

\* C15: when the threads have together made N calls of warning for a category that
\* was not muted, all under one cap M, and every call has returned, exactly
\* min(N, M) messages of the category have been printed; at no time more than that.
C15_NoLostUpdate ==
    \A c \in ThreadCategories :
        steady[c] =>
            /\ printed[c] <= MinOfCalls(calls[c], max)
            /\ (\A t \in Threads : pc[t] = "idle") =>
                   printed[c] = MinOfCalls(calls[c], max)

\* C15 witness: every call has returned, more calls were made than the cap allows,
\* and exactly the cap's number of messages was printed.
C15_Witness ==
    /\ \A t \in Threads : pc[t] = "idle"
    /\ \E t \in Threads : local[t].fn = "warning" /\ op.thread # t
    /\ steady["c1"]
    /\ max = U32Of(DefaultMax)
    /\ calls["c1"] > DefaultMax
    /\ printed["c1"] = DefaultMax

\* C16 as claimed: while a call of warning has counted its warning and not yet
\* written the line, no other thread changes a counter, runs print_warning_summary's
\* locked part or ends the process.
C16_LineAtomicWithCount ==
    [][\A c \in ThreadCategories : \A t \in PendingPrint(c) :
          \/ op'.thread = t
          \/ /\ raised' = raised
             /\ ~(op'.name \in {"print_warning_summary", "print_error"} /\ op'.step = "crit")
             /\ op'.step # "exit"]_vars

\* C16 as amended: the test and the increment of the counter are one step under the
\* mutex and the line is written after the mutex is released, so other threads may
\* act in between; what holds at every moment is that raised[c] is the number of
\* lines of category c written plus the number of calls that have counted theirs
\* and not yet written it.
C16_CountedIsPrintedOrPending ==
    \A c \in ThreadCategories :
        Raised(c) = U32Of(printed[c] + Cardinality(PendingPrint(c)))

\* C16 witness: two threads have both counted a warning of one category before
\* either has written its line.
C16_Witness ==
    \E c \in ThreadCategories :
        /\ Cardinality(PendingPrint(c)) = 2
        /\ Raised(c) = U32Of(printed[c] + 2)

\* the failing line of the call: input.lines().nth(line - 1).unwrap_or("")
FailingLine == NthOr(SplitLines(perr.input), perr.line - 1, << >>)

\* the number of leading whitespace characters of the failing line
Stripped == Len(FailingLine) - Len(trim_start(FailingLine))

\* C17: when format_error returns a diagnostic for a failing line with `stripped`
\* leading whitespace characters and a column C with C - 1 >= stripped, the block
\* shows the line without its leading whitespace and C - 1 - stripped spaces before
\* the caret, so that the caret is under the character that was at column C.
C17_CaretUnderColumn ==
    (/\ perr.variant \in {"raw", "config"}
     /\ diag.kind = "Err"
     /\ perr.column - 1 >= Stripped) =>
        /\ diag.trimmed = trim_start(FailingLine)
        /\ diag.spaces = perr.column - 1 - Stripped
        /\ perr.column <= Len(FailingLine) =>
               diag.trimmed[diag.spaces + 1] = FailingLine[perr.column]

\* C18: the token of a returned diagnostic is the character at position C - 1
\* (0-based) of the untrimmed failing line when the line has at least C characters,
\* and the two characters backslash, n when it is shorter (column = length + 1, or
\* a failing line beyond the end of the input, taken as the empty line).
C18_OffendingToken ==
    (perr.variant \in {"raw", "config"} /\ diag.kind = "Err") =>
        /\ Len(FailingLine) >= perr.column => diag.token = <<FailingLine[perr.column]>>
        /\ Len(FailingLine) < perr.column => diag.token = <<"\\", "n">>
        /\ perr.line > Len(SplitLines(perr.input)) => FailingLine = << >>

\* C18 witness: a failure on the line after a two-line input, whose second line
\* holds a character, was reported with the token backslash, n.
C18_Witness ==
    /\ perr.variant = "raw"
    /\ diag.kind = "Err"
    /\ Len(SplitLines(perr.input)) = 2
    /\ SplitLines(perr.input)[2] # << >>
    /\ perr.line = 3
    /\ diag.token = <<"\\", "n">>

\* C19: in every state reached from the default state by any interleaving of
\* init_warnings, warning, warning_suppressed and print_warning_summary calls, every
\* counter is at most max, so the test raised > max of print_warning_summary is
\* false for every category.
C19_RaisedAtMostMax ==
    /\ \A c \in DOMAIN raised : GeU32(max, raised[c]) /\ ~GtU32(raised[c], max)
    /\ SummaryNames = {}

\* C19 witness: a thread is in print_warning_summary holding the lock while a
\* category that was asked for more often than the cap stands exactly at the cap.
C19_Witness ==
    \E t \in Threads, c \in ThreadCategories :
        /\ pc[t] = "crit"
        /\ local[t].fn = "print_warning_summary"
        /\ calls[c] > DefaultMax
        /\ max = U32Of(DefaultMax)
        /\ c \notin muted
        /\ Raised(c) = max

\* C20: with calls made one after the other, warning_suppressed(Some(c)) returns
\* true exactly when the call warning(msg, Some(c), _) made right after it prints
\* nothing: for the query that was the step before, and for the answer the query
\* gives in the state the warning call starts from.
C20_QueryAgreesWithWarning ==
    [][(op'.name = "warning" /\ op'.cat # None) =>
          /\ warning_suppressed_value(op'.cat) <=> (out' = << >>)
          /\ (op.name = "warning_suppressed" /\ op.cat = op'.cat) =>
                 (op.ret <=> (out' = << >>))]_vars

\* C20 witness: a warning for a category that is not muted printed nothing, in a
\* state where the counter stands at the cap and the query answers true.
C20_Witness ==
    /\ op.name = "warning"
    /\ op.cat \in Unmuted
    /\ out = << >>
    /\ Raised(op.cat) = max
    /\ warning_suppressed_value(op.cat)

\* with concurrent callers the agreement can fail: a thread whose query for c
\* answered false has called warning for c next and returned from the critical
\* section without a line to print, c not being muted (reachable in SpecThreads)
QueryOvertaken ==
    \E t \in Threads :
        /\ pc[t] = "idle"
        /\ local[t].fn = "warning"
        /\ local[t].name \in ThreadCategories \ muted
        /\ local[t].asked = "false"
        /\ op.name = "warning"
        /\ op.step = "crit"
        /\ op.thread = t

====
